---- MODULE Spec2Model ----
(***************************************************************************)
(* Model of utils/compendium_manager.py: the reducer (clean_entry,         *)
(* reduce_entries and the gating predicates), the merger                   *)
(* (copy_string_fields, merge_translations, merge_lists), the sorter       *)
(* (sort_immediate_keys, partial_sort_json) and the four directory         *)
(* batches (reduce, merge, sort, purge).                                   *)
(*                                                                         *)
(* A JSON value is a tagged pair:                                          *)
(*   <<"str", s>>   a Python str                                           *)
(*   <<"num", n>>   a Python int                                           *)
(*   <<"none", 0>>  Python None (JSON null, and what dict.get returns for  *)
(*                  an absent key)                                         *)
(*   <<"dict", kv>> a Python dict: kv is the sequence of <<key, value>>    *)
(*                  pairs in insertion order, keys pairwise distinct       *)
(*   <<"list", xs>> a Python list                                          *)
(* Functions that mutate their first argument in place are operators that  *)
(* return the argument's value after the call.  The destination and the    *)
(* source of a merge are trees loaded from two files, so they share no     *)
(* object (the test `dl is not sl` of merge_translations is always true).  *)
(***************************************************************************)
EXTENDS Integers, Sequences, FiniteSets, TLC

\* ------------------------------------------------------------- values

Str(s) == <<"str", s>>
Num(n) == <<"num", n>>
None == <<"none", 0>>
Dict(kv) == <<"dict", kv>>
List(xs) == <<"list", xs>>

IsStr(v) == v[1] = "str"
IsDict(v) == v[1] = "dict"
IsList(v) == v[1] = "list"

\* dict.items() / the elements of a list
Items(d) == d[2]
Elems(l) == l[2]

KeysOf(d) == {Items(d)[i][1] : i \in 1..Len(Items(d))}
KeySeq(d) == [i \in 1..Len(Items(d)) |-> Items(d)[i][1]]
HasKey(d, k) == k \in KeysOf(d)

\* d[k] for a key the dict holds
At(d, k) == Items(d)[CHOOSE i \in 1..Len(Items(d)) : Items(d)[i][1] = k][2]

\* d.get(k): None for an absent key
Get(d, k) == IF HasKey(d, k) THEN At(d, k) ELSE None

\* d[k] = v: an existing key keeps its place, a new key goes last
Put(d, k, v) ==
    IF HasKey(d, k)
    THEN Dict([i \in 1..Len(Items(d)) |->
                 IF Items(d)[i][1] = k THEN <<k, v>> ELSE Items(d)[i]])
    ELSE Dict(Append(Items(d), <<k, v>>))

\* ------------------------------------------------------------- config

KEEP_KEYS == {"label", "_id", "name", "tokenName", "description", "notes"}
TRANSLATABLE_KEYS == KEEP_KEYS

TOP_LEVEL_KEYS_ORDER == <<"label", "mapping", "folders", "entries">>
KEYS_TO_SORT_IMMEDIATELY == {"folders", "entries"}

\* ------------------------------------------------------------- reduce

\* the emptiness test with the empty list left out: `x in (None, {})`
IsEmptyValueButList(x) == x = None \/ x = Dict(<<>>)

\* `x in (None, {}, [])`
IsEmptyValue(x) == x = None \/ x = Dict(<<>>) \/ x = List(<<>>)

NotEmptyValue(x) == ~IsEmptyValue(x)

RECURSIVE clean_entry(_)
clean_entry(obj) ==
    IF IsDict(obj) THEN
        LET kv == Items(obj)
            new_obj[i \in 0..Len(kv)] ==
                IF i = 0 THEN <<>>
                ELSE LET k == kv[i][1]
                         v == kv[i][2]
                     IN IF k \in KEEP_KEYS THEN Append(new_obj[i - 1], <<k, v>>)
                        ELSE IF IsDict(v) \/ IsList(v) THEN
                            LET cleaned == clean_entry(v)
                            IN IF ~IsEmptyValue(cleaned)
                               THEN Append(new_obj[i - 1], <<k, cleaned>>)
                               ELSE new_obj[i - 1]
                        ELSE new_obj[i - 1]
        IN Dict(new_obj[Len(kv)])
    ELSE IF IsList(obj) THEN
        LET cleaned_list == [i \in 1..Len(Elems(obj)) |-> clean_entry(Elems(obj)[i])]
        IN List(SelectSeq(cleaned_list, NotEmptyValue))
    ELSE None

RECURSIVE reduce_entries(_)
reduce_entries(data) ==
    IF ~IsDict(data) THEN data
    ELSE Dict([i \in 1..Len(Items(data)) |->
            LET k == Items(data)[i][1]
                v == Items(data)[i][2]
            IN IF k = "entries" /\ IsDict(v)
               THEN <<k, Dict([j \in 1..Len(Items(v)) |->
                              <<Items(v)[j][1], clean_entry(Items(v)[j][2])>>])>>
               ELSE IF IsDict(v) \/ IsList(v) THEN <<k, reduce_entries(v)>>
               ELSE <<k, v>>])

\* Python's order of str (by code point) on the keys the model uses: the
\* upper-case letters come before "_", which comes before the lower-case ones.
KeyOrder ==
    <<"Z", "_id", "a", "b", "description", "entries", "folders", "items",
      "label", "mapping", "name", "notes", "sub", "tokenName", "value">>

Rank(k) == CHOOSE i \in 1..Len(KeyOrder) : KeyOrder[i] = k

\* sorted(items, key=lambda item: item[0])
SortedItems(kv) ==
    LET Insert(s, p) ==
            LET n == Cardinality({j \in 1..Len(s) : Rank(s[j][1]) <= Rank(p[1])})
            IN SubSeq(s, 1, n) \o <<p>> \o SubSeq(s, n + 1, Len(s))
        sorted[i \in 0..Len(kv)] ==
            IF i = 0 THEN <<>> ELSE Insert(sorted[i - 1], kv[i])
    IN sorted[Len(kv)]

\* json.dumps(value, sort_keys=True): the text is determined by the value with
\* the keys of every dict in sorted order, which stands for the text here.
RECURSIVE dumps_sort_keys(_)
dumps_sort_keys(v) ==
    IF IsDict(v) THEN
        LET kv == SortedItems(Items(v))
        IN Dict([i \in 1..Len(kv) |-> <<kv[i][1], dumps_sort_keys(kv[i][2])>>])
    ELSE IF IsList(v) THEN
        List([i \in 1..Len(Elems(v)) |-> dumps_sort_keys(Elems(v)[i])])
    ELSE v

has_reduction(original, reduced) ==
    dumps_sort_keys(original) # dumps_sort_keys(reduced)

RECURSIVE has_entries_nonempty(_)
has_entries_nonempty(data) ==
    IF IsDict(data) THEN
        \/ IsDict(Get(data, "entries")) /\ Len(Items(Get(data, "entries"))) > 0
        \/ \E i \in 1..Len(Items(data)) : has_entries_nonempty(Items(data)[i][2])
    ELSE IF IsList(data) THEN
        \E i \in 1..Len(Elems(data)) : has_entries_nonempty(Elems(data)[i])
    ELSE FALSE

RECURSIVE has_translatable_list(_)
has_translatable_list(data) ==
    IF IsDict(data) THEN
        \E i \in 1..Len(Items(data)) : has_translatable_list(Items(data)[i][2])
    ELSE IF IsList(data) THEN
        \E i \in 1..Len(Elems(data)) :
            LET item == Elems(data)[i]
            IN /\ IsDict(item)
               /\ \/ \E k \in KEEP_KEYS : HasKey(item, k) /\ k # "_id"
                  \/ has_translatable_list(item)
    ELSE FALSE

\* ------------------------------------------------------------- merge

\* copy_string_fields without the test `k in TRANSLATABLE_KEYS`
CopyAnyStringField(dst, src) ==
    IF ~(IsDict(dst) /\ IsDict(src)) THEN dst
    ELSE LET kv == Items(src)
             out[i \in 0..Len(kv)] ==
                 IF i = 0 THEN dst
                 ELSE IF kv[i][1] # "_id" /\ IsStr(kv[i][2])
                      THEN Put(out[i - 1], kv[i][1], kv[i][2])
                      ELSE out[i - 1]
         IN out[Len(kv)]

\* copy_string_fields without the `continue` on '_id'
CopyWithId(dst, src) ==
    IF ~(IsDict(dst) /\ IsDict(src)) THEN dst
    ELSE LET kv == Items(src)
             out[i \in 0..Len(kv)] ==
                 IF i = 0 THEN dst
                 ELSE IF IsStr(kv[i][2]) /\ kv[i][1] \in TRANSLATABLE_KEYS
                      THEN Put(out[i - 1], kv[i][1], kv[i][2])
                      ELSE out[i - 1]
         IN out[Len(kv)]

copy_string_fields(dst, src) ==
    IF ~(IsDict(dst) /\ IsDict(src)) THEN dst
    ELSE LET kv == Items(src)
             out[i \in 0..Len(kv)] ==
                 IF i = 0 THEN dst
                 ELSE LET k == kv[i][1]
                          v == kv[i][2]
                      IN IF k = "_id" THEN out[i - 1]
                         ELSE IF IsStr(v) /\ k \in TRANSLATABLE_KEYS
                              THEN Put(out[i - 1], k, v)
                              ELSE out[i - 1]
         IN out[Len(kv)]

RECURSIVE merge_translations(_, _)

\* [i for i, it in enumerate(l) if isinstance(it, dict)], l a sequence of values
DictIdx(l) ==
    LET idx[i \in 0..Len(l)] ==
            IF i = 0 THEN <<>>
            ELSE IF IsDict(l[i]) THEN Append(idx[i - 1], i) ELSE idx[i - 1]
    IN idx[Len(l)]

\* Lookup with the first of several elements of the same value kept
LookupFirstWins(src_list, key) ==
    LET src_idx == DictIdx(src_list)
        by[n \in 0..Len(src_idx)] ==
            IF n = 0 THEN <<>>
            ELSE LET i == src_idx[n]
                     val == Get(src_list[i], key)
                 IN IF IsStr(val) THEN by[n - 1] @@ (val[2] :> i) ELSE by[n - 1]
    IN by[Len(src_idx)]

\* {src_list[i].get(key): i for i in src_idx if isinstance(src_list[i].get(key), str)}:
\* a later element with the same value replaces the earlier index.
Lookup(src_list, key) ==
    LET src_idx == DictIdx(src_list)
        by[n \in 0..Len(src_idx)] ==
            IF n = 0 THEN <<>>
            ELSE LET i == src_idx[n]
                     val == Get(src_list[i], key)
                 IN IF IsStr(val) THEN (val[2] :> i) @@ by[n - 1] ELSE by[n - 1]
    IN by[Len(src_idx)]

\* The state of one merge_lists call: the destination elements, used_src, and
\* the log of the calls merge_translations(dst_list[di], src_list[si]) it has
\* made, each as <<pass, di, si>>.
MergeOne(st, src_list, pass, di, si) ==
    [dst |-> [st.dst EXCEPT ![di] = merge_translations(st.dst[di], src_list[si])],
     used |-> st.used \cup {si},
     pairs |-> Append(st.pairs, <<pass, di, si>>)]

\* one iteration of the loop of pass 1 (by '_id')
Pass1Step(st, src_list, di) ==
    LET d == st.dst[di]
        sid == Get(d, "_id")
        by_id == Lookup(src_list, "_id")
    IN IF IsStr(sid) /\ sid[2] \in DOMAIN by_id
       THEN LET si == by_id[sid[2]]
            IN IF si \notin st.used THEN MergeOne(st, src_list, 1, di, si) ELSE st
       ELSE st

\* Pass2Step without the test `si not in used_src`
Pass2StepIgnoresUsed(st, src_list, di) ==
    LET d == st.dst[di]
        by_name == Lookup(src_list, "name")
    IN IF ~IsStr(Get(d, "name")) THEN st
       ELSE IF Get(d, "name")[2] \in DOMAIN by_name
            THEN MergeOne(st, src_list, 2, di, by_name[Get(d, "name")[2]])
            ELSE st

\* one iteration of the loop of pass 2 (by 'name')
Pass2Step(st, src_list, di) ==
    LET d == st.dst[di]
        by_name == Lookup(src_list, "name")
    IN IF ~IsStr(Get(d, "name")) THEN st
       ELSE IF Get(d, "name")[2] \in DOMAIN by_name
            THEN LET si == by_name[Get(d, "name")[2]]
                 IN IF si \notin st.used THEN MergeOne(st, src_list, 2, di, si) ELSE st
            ELSE st

Pass1(st0, src_list) ==
    LET dst_idx == DictIdx(st0.dst)
        st[n \in 0..Len(dst_idx)] ==
            IF n = 0 THEN st0 ELSE Pass1Step(st[n - 1], src_list, dst_idx[n])
    IN st[Len(dst_idx)]

Pass2(st0, src_list) ==
    LET dst_idx == DictIdx(st0.dst)
        st[n \in 0..Len(dst_idx)] ==
            IF n = 0 THEN st0 ELSE Pass2Step(st[n - 1], src_list, dst_idx[n])
    IN st[Len(dst_idx)]

\* rem_dst of pass 3: the filter isinstance(dst_list[di], dict) keeps all of dst_idx
RemDst(st) == DictIdx(st.dst)

RemSrc(st, src_list) ==
    LET src_idx == DictIdx(src_list)
        InRem(si) == si \notin st.used
    IN SelectSeq(src_idx, InRem)

\* pass 3 (fallback by index): zip(rem_dst, rem_src), both fixed before the loop
Pass3(st0, src_list) ==
    LET rem_dst == RemDst(st0)
        rem_src == RemSrc(st0, src_list)
        m == IF Len(rem_dst) < Len(rem_src) THEN Len(rem_dst) ELSE Len(rem_src)
        st[n \in 0..m] ==
            IF n = 0 THEN st0
            ELSE MergeOne(st[n - 1], src_list, 3, rem_dst[n], rem_src[n])
    IN st[m]

StartLists(dst_elems) == [dst |-> dst_elems, used |-> {}, pairs |-> <<>>]

merge_lists(dst_list, src_list) ==
    IF ~(IsList(dst_list) /\ IsList(src_list)) THEN dst_list
    ELSE LET s == Elems(src_list)
         IN List(Pass3(Pass2(Pass1(StartLists(Elems(dst_list)), s), s), s).dst)

\* the merge_lists calls merge_translations makes on one list dl of dst, in order
MergeListsInto(dl, lists) ==
    LET acc[n \in 0..Len(lists)] ==
            IF n = 0 THEN dl ELSE merge_lists(acc[n - 1], lists[n])
    IN acc[Len(lists)]

\* What merge_translations does to one item of dst after copy_string_fields:
\* the loop over list(dst.items()) merges a dict with the dict, and a list with
\* the list, that src holds at the same key; the cross merge then merges every
\* list of dst with every list of src, in the order of src.
MergeItem(item, src) ==
    LET v == item[2]
        sv == Get(src, item[1])
        src_vals == [i \in 1..Len(Items(src)) |-> Items(src)[i][2]]
        src_lists == SelectSeq(src_vals, IsList)
    IN IF IsDict(v) /\ IsDict(sv) THEN <<item[1], merge_translations(v, sv)>>
       ELSE IF IsList(v)
            THEN <<item[1],
                   MergeListsInto(v, (IF IsList(sv) THEN <<sv>> ELSE <<>>) \o src_lists)>>
            ELSE item

merge_translations(dst, src) ==
    IF ~(IsDict(dst) /\ IsDict(src)) THEN dst
    ELSE LET d1 == copy_string_fields(dst, src)
         IN Dict([i \in 1..Len(Items(d1)) |-> MergeItem(Items(d1)[i], src)])

\* ------------------------------------------------------------- sort

sort_immediate_keys(data) ==
    IF ~IsDict(data) THEN data ELSE Dict(SortedItems(Items(data)))

\* partial_sort_json without its second loop (the keys outside TOP_LEVEL_KEYS_ORDER)
PartialSortDropsOtherKeys(data) ==
    LET first[i \in 0..Len(TOP_LEVEL_KEYS_ORDER)] ==
            IF i = 0 THEN <<>>
            ELSE LET key == TOP_LEVEL_KEYS_ORDER[i]
                 IN IF HasKey(data, key) THEN
                        LET value == At(data, key)
                        IN IF key \in KEYS_TO_SORT_IMMEDIATELY /\ IsDict(value)
                           THEN Append(first[i - 1], <<key, sort_immediate_keys(value)>>)
                           ELSE Append(first[i - 1], <<key, value>>)
                    ELSE first[i - 1]
    IN Dict(first[Len(TOP_LEVEL_KEYS_ORDER)])

partial_sort_json(data) ==
    LET first[i \in 0..Len(TOP_LEVEL_KEYS_ORDER)] ==
            IF i = 0 THEN <<>>
            ELSE LET key == TOP_LEVEL_KEYS_ORDER[i]
                 IN IF HasKey(data, key) THEN
                        LET value == At(data, key)
                        IN IF key \in KEYS_TO_SORT_IMMEDIATELY /\ IsDict(value)
                           THEN Append(first[i - 1], <<key, sort_immediate_keys(value)>>)
                           ELSE Append(first[i - 1], <<key, value>>)
                    ELSE first[i - 1]
        InOrder(key) == \E i \in 1..Len(TOP_LEVEL_KEYS_ORDER) : TOP_LEVEL_KEYS_ORDER[i] = key
        NotInOrder(item) == ~InOrder(item[1])
    IN Dict(first[Len(TOP_LEVEL_KEYS_ORDER)] \o SelectSeq(Items(data), NotInOrder))

\* ------------------------------------------------------------- directory operations

\* A file of the directory is [stem, reduced, body, fault]: its name is
\* <stem>.json or <stem>.reduced.json; body is the JSON value it holds, or
\* BadJson when it does not parse; fault is the I/O operation that raises on
\* it ("read", "write", "unlink") or "none".
BadJson == <<"bad", 0>>

\* what a file operation leaves behind when it raises, and after an unlink
WriteFailed == <<"failed", 0>>
Deleted == <<"deleted", 0>>

\* What the processing of one file does: the line it prints ("" for none) and
\* the files it opens for writing, <<name, content>>.
Outcome(msg, write) == [msg |-> msg, write |-> write]

\* lines 229-230, 257-258, 325: only plain .json files are processed
IsPlain(f) == ~f.reduced

\* the body of the loop of reduce_directory without the has_translatable_list gate
ReduceFileNoListGate(f) ==
    IF f.fault = "read" \/ f.body = BadJson THEN Outcome("[reduce] error", <<>>)
    ELSE IF ~has_entries_nonempty(f.body) THEN Outcome("[reduce] skip (no 'entries')", <<>>)
    ELSE IF has_reduction(f.body, reduce_entries(f.body)) THEN
        IF f.fault = "write"
        THEN Outcome("[reduce] error", << <<"reduced", WriteFailed>> >>)
        ELSE Outcome("[reduce] wrote", << <<"reduced", reduce_entries(f.body)>> >>)
    ELSE Outcome("[reduce] no changes", <<>>)

\* the try block of reduce_directory for a plain file f
reduce_file(f) ==
    IF f.fault = "read" \/ f.body = BadJson THEN Outcome("[reduce] error", <<>>)
    ELSE IF ~has_entries_nonempty(f.body) THEN Outcome("[reduce] skip (no 'entries')", <<>>)
    ELSE IF ~has_translatable_list(f.body)
        THEN Outcome("[reduce] skip (no translatable list)", <<>>)
    ELSE IF has_reduction(f.body, reduce_entries(f.body)) THEN
        IF f.fault = "write"
        THEN Outcome("[reduce] error", << <<"reduced", WriteFailed>> >>)
        ELSE Outcome("[reduce] wrote", << <<"reduced", reduce_entries(f.body)>> >>)
    ELSE Outcome("[reduce] no changes", <<>>)

\* t_by_inner_name.get(nm): the last record of t_entries whose name is nm
ByInnerName(t_entries, nm) ==
    LET kv == Items(t_entries)
        by[n \in 0..Len(kv)] ==
            IF n = 0 THEN None
            ELSE IF IsDict(kv[n][2]) /\ Get(kv[n][2], "name") = nm THEN kv[n][2]
                 ELSE by[n - 1]
    IN by[Len(kv)]

\* t_by_key.get(key): only the records that are mappings are in t_by_key
ByKey(t_entries, key) ==
    IF IsDict(Get(t_entries, key)) THEN Get(t_entries, key) ELSE None

\* the translated record for the original record o_val at key: by key, then
\* with the record's name as key, then by the translated records' inner name
MatchEntry(t_entries, key, o_val) ==
    LET oname == Get(o_val, "name")
    IN IF ByKey(t_entries, key) # None THEN ByKey(t_entries, key)
       ELSE IF ~IsStr(oname) THEN None
       ELSE IF ByKey(t_entries, oname[2]) # None THEN ByKey(t_entries, oname[2])
       ELSE ByInnerName(t_entries, oname)

\* the loop over o_entries.items()
MergeEntries(o_entries, t_entries) ==
    Dict([i \in 1..Len(Items(o_entries)) |->
            LET key == Items(o_entries)[i][1]
                o_val == Items(o_entries)[i][2]
            IN IF ~IsDict(o_val) THEN <<key, o_val>>
               ELSE <<key, merge_translations(o_val, MatchEntry(t_entries, key, o_val))>>])

\* merge_document without the copy of the top-level strings
MergeDocumentEntriesOnly(original, translated) ==
    IF ~(IsDict(original) /\ IsDict(translated)) THEN Outcome("", <<>>)
    ELSE IF IsDict(Get(original, "entries")) /\ IsDict(Get(translated, "entries"))
         THEN Outcome("[merge] updated",
                      << <<"plain", Put(original, "entries",
                                       MergeEntries(Get(original, "entries"),
                                                    Get(translated, "entries")))>> >>)
         ELSE Outcome("[merge] skipped (no 'entries')", <<>>)

\* lines 268-302 of merge_directory, on the two loaded documents
merge_document(original, translated) ==
    IF ~(IsDict(original) /\ IsDict(translated)) THEN Outcome("", <<>>)
    ELSE IF IsDict(Get(original, "entries")) /\ IsDict(Get(translated, "entries"))
         THEN Outcome("[merge] updated",
                      << <<"plain", Put(copy_string_fields(original, translated), "entries",
                                       MergeEntries(Get(original, "entries"),
                                                    Get(translated, "entries")))>> >>)
         ELSE Outcome("[merge] skipped (no 'entries')", <<>>)

\* the try block of merge_directory for a plain file f and its companion c
merge_file(f, c) ==
    IF f.fault = "read" \/ f.body = BadJson \/ c.fault = "read" \/ c.body = BadJson
    THEN Outcome("[merge] error", <<>>)
    ELSE LET out == merge_document(f.body, c.body)
         IN IF out.write # <<>> /\ f.fault = "write"
            THEN Outcome("[merge] error", << <<"plain", WriteFailed>> >>)
            ELSE out

\* process_json_file_for_sort
process_json_file_for_sort(f) ==
    IF f.fault = "read" THEN Outcome("[sort] error", <<>>)
    ELSE IF f.body = BadJson THEN Outcome("[sort] invalid JSON", <<>>)
    ELSE IF ~IsDict(f.body) THEN Outcome("[sort] skip (not a top-level JSON object)", <<>>)
    ELSE IF f.fault = "write" THEN Outcome("[sort] error", << <<"plain", WriteFailed>> >>)
    ELSE Outcome("[sort] updated", << <<"plain", partial_sort_json(f.body)>> >>)

\* the try block of purge_reduced for a companion file f
purge_file(f) ==
    IF f.fault = "unlink" THEN Outcome("[purge] error", <<>>)
    ELSE Outcome("[purge] deleted", << <<"reduced", Deleted>> >>)

\* ------------------------------------------------------------- state

VARIABLES
    pc,        \* where the modelled run stands
    dst,       \* merge: the destination (mutated in place)
    src,       \* merge: the source
    dst0,      \* merge: the destination as it was before the call
    lst,       \* merge_lists: [dst |-> the elements of dst_list, used |-> used_src,
               \*   pairs |-> the merge_translations calls made, <<pass, di, si>>]
    expected,  \* round trip: the original with the companion's edits applied
    edits,     \* round trip: the paths of the companion fields that were edited
    data,      \* reduce / sort: the value handed to the function
    result,    \* reduce: the value it returned; sort: the values the runs returned
    mode,      \* batch: the --mode of the run
    files,     \* batch: the directory, in the order glob enumerates it
    idx,       \* batch: the number of enumerated files the loop is done with
    log,       \* batch: what was printed, <<file index, message>>
    written    \* batch: the files opened for writing or deleted, <<file index, name, content>>

vars ==
    <<pc, dst, src, dst0, lst, expected, edits, data, result,
      mode, files, idx, log, written>>

\* ------------------------------------------------------------- bounds

\* the longest destination and source sequence handed to merge_lists
MaxDstLen == 2
MaxSrcLen == 2

\* the longest sequence nested in a destination or source mapping
MaxItems == 2

\* the most elements of a sequence handed to clean_entry
MaxCleanLen == 2

\* the most top-level keys of a document handed to partial_sort_json
MaxSortKeys == 3

\* the number of times the sorter is run over the same document
MaxSorts == 2

\* the most files of a directory
MaxFiles == 2

\* the most fields a translator edits in a companion
MaxEdits == 2

SeqsUpTo(S, n) == UNION {[1..m -> S] : m \in 0..n}

\* the variables a specification does not use
NoMerge == dst = None /\ src = None /\ dst0 = None
NoLists == lst = StartLists(<<>>)
NoRound == expected = None /\ edits = {}
NoData == data = None /\ result = None
NoBatch == mode = "none" /\ files = <<>> /\ idx = 0 /\ log = <<>> /\ written = <<>>

\* ------------------------------------------------------------- merge_lists, pass by pass

DstPool ==
    { Dict(<< <<"_id", Str("x")>>, <<"label", Str("A")>> >>),
      Dict(<< <<"_id", Str("y")>>, <<"name", Str("N")>>, <<"label", Str("B")>> >>),
      Dict(<< <<"name", Str("N")>>, <<"label", Str("D")>> >>),
      Num(1) }

SrcPool ==
    { Dict(<< <<"_id", Str("x")>>, <<"label", Str("A2")>> >>),
      Dict(<< <<"_id", Str("x")>>, <<"name", Str("N")>>, <<"label", Str("A3")>> >>),
      Dict(<< <<"_id", Str("y")>>, <<"name", Str("N")>>, <<"label", Str("B2")>> >>),
      Dict(<< <<"label", Str("E2")>> >>),
      Num(7) }

InitLists ==
    /\ pc = "pass1"
    /\ dst0 \in {List(l) : l \in SeqsUpTo(DstPool, MaxDstLen)}
    /\ src \in {List(l) : l \in SeqsUpTo(SrcPool, MaxSrcLen)}
    /\ dst = dst0
    /\ lst = StartLists(Elems(dst0))
    /\ NoRound /\ NoData /\ NoBatch

ListsFrame == UNCHANGED <<dst, src, dst0, expected, edits, data, result,
                          mode, files, idx, log, written>>

\* lines 138-145
RunPass1 ==
    /\ pc = "pass1"
    /\ lst' = Pass1(lst, Elems(src))
    /\ pc' = "pass2"
    /\ ListsFrame

\* lines 147-154
RunPass2 ==
    /\ pc = "pass2"
    /\ lst' = Pass2(lst, Elems(src))
    /\ pc' = "pass3"
    /\ ListsFrame

\* lines 156-160
RunPass3 ==
    /\ pc = "pass3"
    /\ lst' = Pass3(lst, Elems(src))
    /\ pc' = "done"
    /\ ListsFrame

NextLists == RunPass1 \/ RunPass2 \/ RunPass3

SpecLists == InitLists /\ [][NextLists]_vars

\* ------------------------------------------------------------- claims on merge_lists

Pairs == lst.pairs
SrcElems == Elems(src)

SourceMergedOnce ==
    \A m, n \in 1..Len(Pairs) : m # n => Pairs[m][3] # Pairs[n][3]

DestinationMergedOncePerPass ==
    \A m, n \in 1..Len(Pairs) :
        (m # n /\ Pairs[m][1] = Pairs[n][1]) => Pairs[m][2] # Pairs[n][2]

RecordsWithUniqueIds(l) ==
    /\ \A i \in 1..Len(l) : IsDict(l[i]) /\ IsStr(Get(l[i], "_id"))
    /\ \A i, j \in 1..Len(l) : j # i => Get(l[j], "_id") # Get(l[i], "_id")

\* C4: with unique string _ids on both sides, after merge_lists a destination
\* record holds, at every translatable key other than _id that is a string in
\* the source record of the same _id, the value of that source record.
C4_IdMatchWins ==
    (pc = "done" /\ RecordsWithUniqueIds(Elems(dst0)) /\ RecordsWithUniqueIds(SrcElems)) =>
        \A di \in 1..Len(lst.dst) : \A si \in 1..Len(SrcElems) :
            Get(Elems(dst0)[di], "_id") = Get(SrcElems[si], "_id") =>
                \A k \in TRANSLATABLE_KEYS \ {"_id"} :
                    IsStr(Get(SrcElems[si], k)) =>
                        Get(lst.dst[di], k) = Get(SrcElems[si], k)

PassKey(pass) == IF pass = 1 THEN "_id" ELSE "name"

Opt(k, values) == {<<>>} \cup {<< <<k, v>> >> : v \in values}

DstItemPool ==
    { Dict(<< <<"_id", Str("x")>>, <<"label", Str("A")>> >>),
      Dict(<< <<"label", Str("B")>>, <<"value", Num(1)>> >>) }

SrcItemPool ==
    { Dict(<< <<"_id", Str("y")>>, <<"name", Str("N")>>, <<"label", Str("A2")>> >>),
      Dict(<< <<"_id", Str("x")>>, <<"label", Str("A3")>>, <<"value", Str("v")>> >>) }

MergeDsts ==
    { Dict(id \o notes \o sub \o items) :
        id \in Opt("_id", {Str("x"), Dict(<< <<"name", Str("a")>> >>)}),
        notes \in Opt("notes", {List(<< Dict(<< <<"label", Str("q")>> >>) >>)}),
        sub \in {<< <<"sub", Dict(<< <<"_id", Str("x")>>, <<"value", Num(1)>> >>)>> >>},
        items \in {<< <<"items", List(l)>> >> : l \in SeqsUpTo(DstItemPool, MaxItems)} }

MergeSrcs ==
    { Dict(id \o label \o notes \o sub \o items) :
        id \in Opt("_id", {Str("z"), Dict(<< <<"name", Str("b")>> >>)}),
        label \in Opt("label", {Str("A2")}),
        notes \in Opt("notes", {Str("n2")}),
        sub \in Opt("sub", {Dict(<< <<"_id", Str("z")>>, <<"label", Str("S")>>,
                                    <<"value", Str("v")>> >>)}),
        items \in {<< <<"items", List(l)>> >> : l \in SeqsUpTo(SrcItemPool, MaxItems)} }

InitMerge ==
    /\ pc = "call"
    /\ dst0 \in MergeDsts
    /\ src \in MergeSrcs
    /\ dst = dst0
    /\ NoLists /\ NoRound /\ NoData /\ NoBatch

\* the call merge_translations(dst, src)
CallMerge ==
    /\ pc = "call"
    /\ dst' = merge_translations(dst, src)
    /\ pc' = "done"
    /\ UNCHANGED <<src, dst0, lst, expected, edits, data, result,
                   mode, files, idx, log, written>>

NextMerge == CallMerge

SpecMerge == InitMerge /\ [][NextMerge]_vars

\* ------------------------------------------------------------- claims on merge_translations

IsContainer(v) == IsDict(v) \/ IsList(v)

CopyKeys == TRANSLATABLE_KEYS \ {"_id"}

\* a after the merge against b before it: no key removed, only translatable
\* keys other than _id added (holding a string), a sequence still a sequence of
\* the same length, unless a string was copied over it at a translatable key
RECURSIVE ShapeKept(_, _)
ShapeKept(b, a) ==
    IF IsDict(b) THEN
        /\ IsDict(a)
        /\ KeysOf(b) \subseteq KeysOf(a)
        /\ \A k \in KeysOf(a) \ KeysOf(b) : k \in CopyKeys /\ IsStr(At(a, k))
        /\ \A k \in KeysOf(b) :
               \/ k \in CopyKeys /\ IsStr(At(a, k))
               \/ ShapeKept(At(b, k), At(a, k))
    ELSE IF IsList(b) THEN
        /\ IsList(a)
        /\ Len(Elems(a)) = Len(Elems(b))
        /\ \A i \in 1..Len(Elems(b)) : ShapeKept(Elems(b)[i], Elems(a)[i])
    ELSE a = b

\* a after the merge against b before it: the same key set in every mapping,
\* every sequence still a sequence of the same length
RECURSIVE SameShape(_, _)
SameShape(b, a) ==
    IF IsDict(b) THEN
        /\ IsDict(a)
        /\ KeysOf(a) = KeysOf(b)
        /\ \A k \in KeysOf(b) : SameShape(At(b, k), At(a, k))
    ELSE IF IsList(b) THEN
        /\ IsList(a)
        /\ Len(Elems(a)) = Len(Elems(b))
        /\ \A i \in 1..Len(Elems(b)) : SameShape(Elems(b)[i], Elems(a)[i])
    ELSE TRUE

\* C1 (as amended): merge_translations removes no key of d or of a mapping
\* nested in d, adds only translatable keys other than _id (holding a string),
\* and leaves every sequence a sequence of the same length, unless the source
\* holds a string at the translatable key of the sequence, which replaces it.
C1_ShapeKept == pc = "done" => ShapeKept(dst0, dst)

\* C1 witness: the merge added a key to d and changed an element of a sequence.
C1_Witness ==
    /\ pc = "done"
    /\ KeysOf(dst) # KeysOf(dst0)
    /\ Len(Elems(At(dst0, "items"))) > 0
    /\ At(dst, "items") # At(dst0, "items")

\* C1 (original): after merge_translations the key set of d and of every
\* mapping nested in d is as before, and every sequence has its length.
C1_SameShape == pc = "done" => SameShape(dst0, dst)

\* a after the merge against b before it: a mapping that held a scalar _id
\* holds the same _id, and a mapping that held none holds none
RECURSIVE IdKept(_, _)
IdKept(b, a) ==
    IF IsDict(b) /\ IsDict(a) THEN
        /\ HasKey(a, "_id") <=> HasKey(b, "_id")
        /\ (HasKey(b, "_id") /\ ~IsContainer(At(b, "_id"))) => At(a, "_id") = At(b, "_id")
        /\ \A k \in KeysOf(b) \cap KeysOf(a) : IdKept(At(b, k), At(a, k))
    ELSE IF IsList(b) /\ IsList(a) /\ Len(Elems(a)) = Len(Elems(b)) THEN
        \A i \in 1..Len(Elems(b)) : IdKept(Elems(b)[i], Elems(a)[i])
    ELSE TRUE

\* a after the merge against b before it: every mapping holds the _id value it
\* held (None for no _id)
RECURSIVE IdSame(_, _)
IdSame(b, a) ==
    IF IsDict(b) /\ IsDict(a) THEN
        /\ Get(a, "_id") = Get(b, "_id")
        /\ \A k \in (KeysOf(b) \cap KeysOf(a)) \ {"_id"} : IdSame(At(b, k), At(a, k))
    ELSE IF IsList(b) /\ IsList(a) /\ Len(Elems(a)) = Len(Elems(b)) THEN
        \A i \in 1..Len(Elems(b)) : IdSame(Elems(b)[i], Elems(a)[i])
    ELSE TRUE

\* C2 (as amended): after merge_translations every mapping of d that held a
\* string, number or null _id holds the same _id, and none gained an _id,
\* whatever _id values the source carries.
C2_ScalarIdKept == pc = "done" => IdKept(dst0, dst)

\* C2 witness: d and the source carry different string _ids, and the merge
\* changed d.
C2_Witness ==
    /\ pc = "done"
    /\ IsStr(Get(dst0, "_id")) /\ IsStr(Get(src, "_id"))
    /\ Get(dst0, "_id") # Get(src, "_id")
    /\ dst # dst0

\* C2 (original): the _id value of d and of every mapping nested in d is the
\* same after merge_translations as before.
C2_IdSame == pc = "done" => IdSame(dst0, dst)

\* ------------------------------------------------------------- clean_entry

CleanLeaves == {Str("A"), Num(1), None, Dict(<<>>), List(<<>>)}

\* mappings of leaves, and sequences of leaves
CleanLevel1 ==
    { Dict(label \o value) :
        label \in Opt("label", {Str("A"), None, List(<<>>)}),
        value \in Opt("value", {Num(1), Dict(<<>>), List(<<>>)}) }
    \cup {List(l) : l \in SeqsUpTo({Str("A"), Dict(<<>>), Num(1)}, MaxCleanLen)}

CleanNested ==
    { Dict(<< <<"label", Str("B")>>, <<"value", Num(2)>> >>),
      Dict(<< <<"value", Num(2)>> >>),
      Dict(<< <<"_id", Str("x")>> >>),
      List(<< Dict(<< <<"value", Num(2)>> >>) >>),
      List(<< Dict(<<>>) >>),
      List(<< Dict(<< <<"name", Str("N")>>, <<"value", Num(2)>> >>), Num(3) >>) }

\* mappings and sequences of the values above: containers at translatable keys
\* (notes, description) and at other keys (items, sub)
CleanLevel2 ==
    { Dict(notes \o items \o sub) :
        notes \in Opt("notes", CleanNested),
        items \in Opt("items", CleanNested),
        sub \in Opt("sub", {Dict(<< <<"description", List(<< Dict(<<>>), None >>)>>,
                                    <<"value", Num(4)>> >>),
                            Dict(<< <<"a", Dict(<< <<"value", Num(5)>> >>)>> >>)}) }
    \cup {List(l) : l \in SeqsUpTo(CleanNested, MaxCleanLen)}

CleanInputs == CleanLeaves \cup CleanLevel1 \cup CleanLevel2

InitClean ==
    /\ pc = "call"
    /\ data \in CleanInputs
    /\ result = None
    /\ NoMerge /\ NoLists /\ NoRound /\ NoBatch

\* the call clean_entry(data)
CallClean ==
    /\ pc = "call"
    /\ result' = clean_entry(data)
    /\ pc' = "done"
    /\ UNCHANGED <<dst, src, dst0, lst, expected, edits, data, mode, files, idx, log, written>>

NextClean == CallClean

SpecClean == InitClean /\ [][NextClean]_vars

\* ------------------------------------------------------------- partial_sort_json

SortKeyPool == {"label", "entries", "folders", "name", "Z", "mapping"}

SortValues(k) ==
    IF k = "entries" THEN
        { Dict(<< <<"b", Num(1)>>, <<"a", Dict(<< <<"name", Str("S")>>, <<"_id", Str("i")>> >>)>> >>),
          Dict(<< <<"a", Num(2)>>, <<"_id", Num(1)>>, <<"Z", Num(3)>> >>),
          List(<< Num(2), Num(1) >>) }
    ELSE IF k = "folders" THEN
        { Dict(<< <<"name", Str("F")>>, <<"b", Str("G")>> >>), Dict(<<>>) }
    ELSE IF k = "mapping" THEN
        { Dict(<< <<"name", Str("system.name")>>, <<"label", Str("system.label")>> >>) }
    ELSE { Str("X") }

\* the dicts over a sequence of distinct keys, each key with one of its values
DictsOver(keys) ==
    { Dict([i \in 1..Len(keys) |-> <<keys[i], val[i]>>]) :
        val \in {f \in [1..Len(keys) -> UNION {SortValues(k) : k \in SortKeyPool}] :
                    \A i \in 1..Len(keys) : f[i] \in SortValues(keys[i])} }

SortDocs ==
    UNION { DictsOver(keys) :
            keys \in {q \in SeqsUpTo(SortKeyPool, MaxSortKeys) :
                        \A i, j \in 1..Len(q) : i # j => q[i] # q[j]} }

InitSort ==
    /\ pc = "sort"
    /\ data \in SortDocs
    /\ result = <<>>
    /\ NoMerge /\ NoLists /\ NoRound /\ NoBatch

\* One run of the sorter over the document (lines 199-200): the first run
\* sorts the document, a later run sorts what the run before it wrote.
\* result is the sequence of the values the runs returned.
CallSort ==
    /\ pc = "sort"
    /\ Len(result) < MaxSorts
    /\ result' = Append(result,
                        partial_sort_json(IF result = <<>> THEN data ELSE result[Len(result)]))
    /\ pc' = "sort"
    /\ UNCHANGED <<dst, src, dst0, lst, expected, edits, data, mode, files, idx, log, written>>

NextSort == CallSort

SpecSort == InitSort /\ [][NextSort]_vars

\* ------------------------------------------------------------- claims on clean_entry

\* the increasing selections of n of the indices 1..m
Selections(m, n) ==
    {f \in [1..n -> 1..m] : \A i, j \in 1..n : i < j => f[i] < f[j]}

\* r is v filtered: a mapping of r has only keys of the mapping of v it comes
\* from, a keep-key with the value it has in v, any other key with the filtered,
\* non-empty value of a mapping or sequence of v; a sequence of r holds, in
\* order, filtered, non-empty elements of the sequence of v
RECURSIVE Filtered(_, _)
Filtered(v, r) ==
    IF IsDict(v) THEN
        /\ IsDict(r)
        /\ KeysOf(r) \subseteq KeysOf(v)
        /\ \A k \in KeysOf(r) :
               IF k \in KEEP_KEYS THEN At(r, k) = At(v, k)
               ELSE /\ IsContainer(At(v, k))
                    /\ At(r, k) \notin {None, Dict(<<>>), List(<<>>)}
                    /\ Filtered(At(v, k), At(r, k))
    ELSE IF IsList(v) THEN
        /\ IsList(r)
        /\ Len(Elems(r)) <= Len(Elems(v))
        /\ \A j \in 1..Len(Elems(r)) : Elems(r)[j] \notin {None, Dict(<<>>), List(<<>>)}
        /\ \E f \in Selections(Len(Elems(v)), Len(Elems(r))) :
               \A j \in 1..Len(Elems(r)) : Filtered(Elems(v)[f[j]], Elems(r)[j])
    ELSE r = None

\* nowhere in r is an empty mapping, an empty sequence or None an element of a
\* sequence or the value of a key outside KEEP_KEYS
RECURSIVE NoEmptyAnywhere(_)
NoEmptyAnywhere(r) ==
    IF IsDict(r) THEN
        \A i \in 1..Len(Items(r)) :
            /\ Items(r)[i][1] \notin KEEP_KEYS =>
                   Items(r)[i][2] \notin {None, Dict(<<>>), List(<<>>)}
            /\ NoEmptyAnywhere(Items(r)[i][2])
    ELSE IF IsList(r) THEN
        \A i \in 1..Len(Elems(r)) :
            /\ Elems(r)[i] \notin {None, Dict(<<>>), List(<<>>)}
            /\ NoEmptyAnywhere(Elems(r)[i])
    ELSE TRUE

\* C8 (as amended): clean_entry only filters: outside the values it keeps
\* verbatim at translatable keys, every mapping of the result has only keys of
\* its source mapping, every sequence is a subsequence of the reduced elements
\* of its source sequence, and no empty mapping, empty sequence or None is an
\* element of a sequence or the value of a non-translatable key; a translatable
\* key holds exactly the source's value.
C8_OnlyFilters == pc = "done" => Filtered(data, result)

\* C8 witness: clean_entry dropped a key or an element and kept another.
C8_Witness ==
    /\ pc = "done"
    /\ IsDict(data) /\ HasKey(data, "items") /\ HasKey(result, "items")
    /\ At(result, "items") # At(data, "items")
    /\ HasKey(data, "sub") /\ ~HasKey(result, "sub")

\* C8 (original): the same, of every mapping and every sequence of the result,
\* those inside the values kept at translatable keys included.
C8_OnlyFiltersEverywhere ==
    pc = "done" => (Filtered(data, result) /\ NoEmptyAnywhere(result))

\* ------------------------------------------------------------- claims on partial_sort_json

\* the same value up to the order of the keys of its mappings
RECURSIVE SameValue(_, _)
SameValue(a, b) ==
    IF IsDict(a) /\ IsDict(b) THEN
        /\ KeysOf(a) = KeysOf(b)
        /\ Len(Items(a)) = Len(Items(b))
        /\ \A k \in KeysOf(a) : SameValue(At(a, k), At(b, k))
    ELSE IF IsList(a) /\ IsList(b) THEN
        /\ Len(Elems(a)) = Len(Elems(b))
        /\ \A i \in 1..Len(Elems(a)) : SameValue(Elems(a)[i], Elems(b)[i])
    ELSE a = b

\* C9: sorting what a sort returned returns it unchanged, key order included,
\* and a sort returns the keys of its document, each with the same value (only
\* the order of the immediate keys of folders and entries may differ).
C9_SortIdempotent ==
    /\ \A n \in 2..Len(result) : result[n] = result[n - 1]
    /\ Len(result) >= 1 =>
           /\ KeysOf(result[1]) = KeysOf(data)
           /\ Len(Items(result[1])) = Len(Items(data))
           /\ \A k \in KeysOf(data) :
                  /\ SameValue(At(result[1], k), At(data, k))
                  /\ (k \notin KEYS_TO_SORT_IMMEDIATELY \/ ~IsDict(At(data, k))) =>
                         At(result[1], k) = At(data, k)

\* C9 witness: the first sort reordered the top-level keys and the keys of
\* entries, and the document was sorted a second time.
C9_Witness ==
    /\ Len(result) >= 2
    /\ KeySeq(result[1]) # KeySeq(data)
    /\ HasKey(data, "entries") /\ At(result[1], "entries") # At(data, "entries")
    /\ \E k \in KeysOf(data) : k \notin {"label", "mapping", "folders", "entries"}

\* ------------------------------------------------------------- the four directory modes

Stems == {"X", "Y"}

\* passes both gates and is reduced
DocSword ==
    Dict(<< <<"label", Str("Items")>>,
            <<"entries", Dict(<< <<"a", Dict(<< <<"_id", Str("i1")>>, <<"name", Str("Sword")>>,
                                                <<"label", Str("Sword")>>, <<"value", Num(10)>>,
                                                <<"items", List(<< Dict(<< <<"_id", Str("x")>>,
                                                                           <<"label", Str("A")>>,
                                                                           <<"value", Num(1)>> >>) >>)>> >>)>> >>)>> >>)

\* a non-empty entries mapping, reducible, no sequence
DocNoList ==
    Dict(<< <<"entries", Dict(<< <<"a", Dict(<< <<"name", Str("S")>>, <<"value", Num(1)>> >>)>> >>)>> >>)

\* no entries at all
DocNoEntries == Dict(<< <<"label", Str("L")>>, <<"items", List(<< Dict(<< <<"name", Str("N")>> >>) >>)>> >>)

\* passes both gates, nothing to reduce
DocAllKept ==
    Dict(<< <<"entries", Dict(<< <<"a", Dict(<< <<"items", List(<< Dict(<< <<"label", Str("A")>> >>) >>)>> >>)>> >>)>> >>)

\* a top-level value that is not a mapping
DocNotMapping == List(<< Num(1) >>)

\* the companion of DocSword, translated
DocSwordTranslated ==
    Dict(<< <<"label", Str("Itens")>>,
            <<"entries", Dict(<< <<"a", Dict(<< <<"_id", Str("i1")>>, <<"name", Str("Espada")>>,
                                                <<"label", Str("Espada")>>,
                                                <<"items", List(<< Dict(<< <<"_id", Str("x")>>,
                                                                           <<"label", Str("A2")>> >>) >>)>> >>)>> >>)>> >>)

PlainFiles ==
    { [stem |-> st, reduced |-> FALSE, body |-> b, fault |-> "none"] :
        st \in Stems,
        b \in {DocSword, DocNoList, DocNoEntries, DocAllKept, DocNotMapping, BadJson} }
    \cup { [stem |-> st, reduced |-> FALSE, body |-> DocSword, fault |-> ft] :
             st \in Stems, ft \in {"read", "write"} }

ReducedFiles ==
    { [stem |-> st, reduced |-> TRUE, body |-> b, fault |-> "none"] :
        st \in Stems,
        b \in {DocSwordTranslated, DocNoEntries, DocNotMapping, BadJson} }
    \cup { [stem |-> st, reduced |-> TRUE, body |-> DocSwordTranslated, fault |-> ft] :
             st \in Stems, ft \in {"read", "unlink"} }

\* the enumerations of a directory: no two files have the same name
Directories ==
    { d \in SeqsUpTo(PlainFiles \cup ReducedFiles, MaxFiles) :
        \A i, j \in 1..Len(d) :
            i # j => (d[i].stem # d[j].stem \/ d[i].reduced # d[j].reduced) }

\* reduced_path of the plain file f, when reduced_path.exists()
Companions(f) ==
    SelectSeq(files, LAMBDA c : c.reduced /\ c.stem = f.stem)

InitBatch ==
    /\ pc = "batch"
    /\ mode \in {"reduce", "merge", "sort", "purge"}
    /\ files \in Directories
    /\ idx = 0
    /\ log = <<>>
    /\ written = <<>>
    /\ NoMerge /\ NoLists /\ NoRound /\ NoData

\* the loop is done with file idx + 1, having printed and written what out says
Record(out) ==
    /\ idx' = idx + 1
    /\ log' = IF out.msg = "" THEN log ELSE Append(log, <<idx + 1, out.msg>>)
    /\ written' = written \o [n \in 1..Len(out.write) |->
                                 <<idx + 1, out.write[n][1], out.write[n][2]>>]
    /\ UNCHANGED <<pc, dst, src, dst0, lst, expected, edits, data, result, mode, files>>

Nothing == Outcome("", <<>>)

\* one iteration of the loop of reduce_directory
ReduceFile ==
    /\ pc = "batch" /\ mode = "reduce" /\ idx < Len(files)
    /\ Record(IF IsPlain(files[idx + 1]) THEN reduce_file(files[idx + 1]) ELSE Nothing)

\* one iteration of the loop of merge_directory
MergeFile ==
    /\ pc = "batch" /\ mode = "merge" /\ idx < Len(files)
    /\ Record(IF IsPlain(files[idx + 1]) /\ Companions(files[idx + 1]) # <<>>
              THEN merge_file(files[idx + 1], Companions(files[idx + 1])[1])
              ELSE Nothing)

\* one iteration of the loop of sort_directory
SortFile ==
    /\ pc = "batch" /\ mode = "sort" /\ idx < Len(files)
    /\ Record(IF IsPlain(files[idx + 1]) THEN process_json_file_for_sort(files[idx + 1])
              ELSE Nothing)

\* one iteration of the loop of purge_reduced: its glob is *.reduced.json
PurgeFile ==
    /\ pc = "batch" /\ mode = "purge" /\ idx < Len(files)
    /\ Record(IF IsPlain(files[idx + 1]) THEN Nothing ELSE purge_file(files[idx + 1]))

\* the loop is over; purge_reduced prints when it deleted nothing
EndBatch ==
    /\ pc = "batch" /\ idx = Len(files)
    /\ pc' = "done"
    /\ log' = IF mode = "purge" /\ \A n \in 1..Len(written) : written[n][3] # Deleted
              THEN Append(log, <<0, "[purge] nothing to delete">>)
              ELSE log
    /\ UNCHANGED <<dst, src, dst0, lst, expected, edits, data, result, mode, files, idx, written>>

NextBatch == ReduceFile \/ MergeFile \/ SortFile \/ PurgeFile \/ EndBatch

SpecBatch == InitBatch /\ [][NextBatch]_vars

\* ------------------------------------------------------------- claims on the directory modes

\* the files the mode processes: plain files, with a companion for merge;
\* companions for purge
Processed(i) ==
    IF mode = "purge" THEN files[i].reduced
    ELSE IF mode = "merge" THEN IsPlain(files[i]) /\ Companions(files[i]) # <<>>
    ELSE IsPlain(files[i])

\* processing file i failed: a file it reads does not parse, is not a mapping
\* or cannot be read, or a write or the delete raised
Failed(i) ==
    /\ Processed(i)
    /\ \/ files[i].fault \in {"read", "unlink"}
       \/ files[i].body = BadJson
       \/ ~IsDict(files[i].body) /\ mode # "purge"
       \/ \E n \in 1..Len(written) : written[n][1] = i /\ written[n][3] = WriteFailed
       \/ /\ mode = "merge"
          /\ LET c == Companions(files[i])[1]
             IN c.fault = "read" \/ c.body = BadJson \/ ~IsDict(c.body)

Reports(i) == {n \in 1..Len(log) : log[n][1] = i}

\* C6 (original): in each mode, the failure of a file is reported, once and
\* for that file, no file is blamed before its turn, and the loop goes on to
\* the end of the enumeration.
C6_FailureReported ==
    /\ \A i \in 1..idx : Failed(i) => Cardinality(Reports(i)) = 1
    /\ \A n \in 1..Len(log) : log[n][1] <= idx
    /\ pc = "done" => idx = Len(files)
    /\ pc = "batch" => idx <= Len(files)

\* the values in the tree of v
RECURSIVE SubValues(_)
SubValues(v) ==
    {v} \cup
    (IF IsDict(v) THEN UNION {SubValues(Items(v)[i][2]) : i \in 1..Len(Items(v))}
     ELSE IF IsList(v) THEN UNION {SubValues(Elems(v)[i]) : i \in 1..Len(Elems(v))}
     ELSE {})

HasNonEmptyEntries(d) ==
    \E x \in SubValues(d) :
        IsDict(x) /\ HasKey(x, "entries") /\ IsDict(At(x, "entries")) /\ At(x, "entries") # Dict(<<>>)

HasTranslatableElement(d) ==
    \E x \in SubValues(d) :
        /\ IsList(x)
        /\ \E i \in 1..Len(Elems(x)) :
               IsDict(Elems(x)[i]) /\ KeysOf(Elems(x)[i]) \cap (TRANSLATABLE_KEYS \ {"_id"}) # {}

\* C7: in reduce mode a companion is opened for writing only for a plain file
\* whose document has a non-empty entries mapping somewhere, has somewhere a
\* sequence element that is a mapping with a translatable key other than _id,
\* and is not the same value as its reduction; for any other file nothing is
\* written.
C7_ReductionGated ==
    mode = "reduce" =>
        \A n \in 1..Len(written) :
            LET f == files[written[n][1]]
            IN /\ written[n][2] = "reduced"
               /\ IsPlain(f)
               /\ f.body # BadJson
               /\ HasNonEmptyEntries(f.body)
               /\ HasTranslatableElement(f.body)
               /\ ~SameValue(reduce_entries(f.body), f.body)

\* C7 witness: a reduce run wrote a companion for one file and none for another.
C7_Witness ==
    /\ mode = "reduce" /\ pc = "done"
    /\ written # <<>>
    /\ \E n \in 1..Len(log) :
           log[n][2] \in {"[reduce] skip (no 'entries')", "[reduce] skip (no translatable list)",
                         "[reduce] no changes"}

\* ------------------------------------------------------------- reduce, edit, merge back

\* A path into a value is a sequence of steps, <<"k", key>> into a mapping and
\* <<"i", index>> into a sequence.

\* the paths of v to the fields a translator edits: the strings held at a
\* translatable key other than _id
RECURSIVE EditablePaths(_)
EditablePaths(v) ==
    LET Below(step, x) ==
            {<<step>> \o q : q \in EditablePaths(x)}
            \cup (IF step[1] = "k" /\ step[2] \in CopyKeys /\ IsStr(x) THEN {<<step>>} ELSE {})
    IN IF IsDict(v)
       THEN UNION {Below(<<"k", Items(v)[i][1]>>, Items(v)[i][2]) : i \in 1..Len(Items(v))}
       ELSE IF IsList(v)
       THEN UNION {Below(<<"i", i>>, Elems(v)[i]) : i \in 1..Len(Elems(v))}
       ELSE {}

\* v with the value at path q replaced by new
RECURSIVE SetPath(_, _, _)
SetPath(v, q, new) ==
    IF q = <<>> THEN new
    ELSE LET child == IF Head(q)[1] = "k" THEN At(v, Head(q)[2]) ELSE Elems(v)[Head(q)[2]]
             sub == <<SetPath(child, Tail(q), new)>>
         IN IF Head(q)[1] = "k" THEN Put(v, Head(q)[2], sub[1])
            ELSE List([j \in 1..Len(Elems(v)) |->
                         IF j = Head(q)[2] THEN sub[1] ELSE Elems(v)[j]])

\* the index in xs of the n-th element that clean_entry's list branch keeps
KeptIndex(xs, n) ==
    LET kept == {i \in 1..Len(xs) : NotEmptyValue(clean_entry(xs[i]))}
    IN CHOOSE i \in kept : Cardinality({j \in kept : j <= i}) = n

\* The path in the document d of the field that the companion
\* reduce_entries(d) holds at path q. ctx tells how the companion's value was
\* made from d's: "reduce" by reduce_entries, "entries" as the entries mapping,
\* "clean" by clean_entry, "kept" copied as it is.
RECURSIVE OrigPath(_, _, _)
OrigPath(d, q, ctx) ==
    IF q = <<>> THEN <<>>
    ELSE LET k == Head(q)[2]
             step == IF Head(q)[1] = "i" /\ ctx = "clean"
                     THEN <<"i", KeptIndex(Elems(d), k)>>
                     ELSE Head(q)
             child == IF step[1] = "k" THEN At(d, k) ELSE Elems(d)[step[2]]
             next == IF step[1] = "i" THEN ctx
                     ELSE IF ctx = "reduce"
                          THEN IF k = "entries" /\ IsDict(child) THEN "entries"
                               ELSE IF IsDict(child) THEN "reduce" ELSE "kept"
                     ELSE IF ctx = "entries" THEN "clean"
                     ELSE IF ctx = "clean" /\ k \notin KEEP_KEYS THEN "clean"
                     ELSE "kept"
         IN <<step>> \o OrigPath(child, Tail(q), next)

RecordSword ==
    Dict(<< <<"_id", Str("i1")>>, <<"name", Str("Sword")>>, <<"label", Str("Sword")>>,
            <<"value", Num(10)>> >>)

\* a sequence of records with distinct _ids
RecordWithIds ==
    Dict(<< <<"name", Str("N")>>,
            <<"items", List(<< Dict(<< <<"_id", Str("x")>>, <<"label", Str("A")>>, <<"value", Num(1)>> >>),
                               Dict(<< <<"_id", Str("y")>>, <<"label", Str("B")>> >>) >>)>> >>)

\* a sequence whose first element is dropped by the reduction
RecordNoIds ==
    Dict(<< <<"items", List(<< Dict(<< <<"value", Num(1)>> >>),
                               Dict(<< <<"label", Str("B")>> >>) >>)>> >>)

\* two sequences under different keys
RecordTwoLists ==
    Dict(<< <<"a", List(<< Dict(<< <<"_id", Str("x")>>, <<"label", Str("A")>> >>) >>)>>,
            <<"b", List(<< Dict(<< <<"_id", Str("y")>>, <<"label", Str("B")>> >>) >>)>> >>)

\* nested mappings, at a translatable key and at another key
RecordNested ==
    Dict(<< <<"description", Dict(<< <<"label", Str("D")>>, <<"value", Num(2)>> >>)>>,
            <<"sub", Dict(<< <<"name", Str("Q")>>, <<"value", Num(3)>> >>)>> >>)

\* a sequence of scalars next to a sequence of records
RecordScalars ==
    Dict(<< <<"notes", List(<< Str("s"), Num(1) >>)>>,
            <<"items", List(<< Dict(<< <<"_id", Str("x")>>, <<"name", Str("N1")>>,
                                       <<"value", Num(1)>> >>) >>)>> >>)

RecordPool ==
    {RecordSword, RecordWithIds, RecordNoIds, RecordTwoLists, RecordNested, RecordScalars}

RoundDocs ==
    { Dict(label \o mapping \o << <<"entries", Dict(<< <<"a", r>> >> \o more)>> >>) :
        label \in Opt("label", {Str("L")}),
        mapping \in Opt("mapping", {Dict(<< <<"name", Str("system.name")>> >>)}),
        r \in RecordPool,
        more \in Opt("b", {RecordSword}) }

\* what a translator writes in place of a string
Translations == {Str("T")}

InitRound ==
    /\ pc = "reduce"
    /\ dst0 \in RoundDocs
    /\ dst = dst0
    /\ src = None
    /\ expected = dst0
    /\ edits = {}
    /\ NoLists /\ NoData /\ NoBatch

\* reduce mode: the companion is reduce_entries of the document (line 242)
Reduce ==
    /\ pc = "reduce"
    /\ src' = reduce_entries(dst)
    /\ pc' = "edit"
    /\ UNCHANGED <<dst, dst0, lst, expected, edits, data, result, mode, files, idx, log, written>>

\* the translator replaces one string of the companion; expected is the
\* original with the same field replaced
Edit ==
    /\ pc = "edit"
    /\ Cardinality(edits) < MaxEdits
    /\ \E q \in EditablePaths(src) \ edits, new \in Translations :
           /\ src' = SetPath(src, q, new)
           /\ expected' = SetPath(expected, OrigPath(dst0, q, "reduce"), new)
           /\ edits' = edits \cup {q}
    /\ UNCHANGED <<pc, dst, dst0, lst, data, result, mode, files, idx, log, written>>

\* merge mode: lines 268-302 on the document and its edited companion
MergeBack ==
    /\ pc = "edit"
    /\ dst' = LET out == merge_document(dst, src)
              IN IF out.write = <<>> THEN dst ELSE out.write[1][2]
    /\ pc' = "done"
    /\ UNCHANGED <<src, dst0, lst, expected, edits, data, result, mode, files, idx, log, written>>

NextRound == Reduce \/ Edit \/ MergeBack

SpecRound == InitRound /\ [][NextRound]_vars

\* ------------------------------------------------------------- claims on the round trip

\* a sequence that holds a mapping
IsRecordList(v) == IsList(v) /\ \E i \in 1..Len(Elems(v)) : IsDict(Elems(v)[i])

\* every sequence in v holds only scalars, or only mappings with pairwise
\* distinct string _ids, and no mapping holds two sequences of mappings
RECURSIVE WellKeyedValue(_)
WellKeyedValue(v) ==
    IF IsDict(v) THEN
        /\ Cardinality({i \in 1..Len(Items(v)) : IsRecordList(Items(v)[i][2])}) <= 1
        /\ \A i \in 1..Len(Items(v)) : WellKeyedValue(Items(v)[i][2])
    ELSE IF IsRecordList(v) THEN
        /\ \A i \in 1..Len(Elems(v)) : IsDict(Elems(v)[i]) /\ IsStr(Get(Elems(v)[i], "_id"))
        /\ \A i, j \in 1..Len(Elems(v)) :
               i # j => Get(Elems(v)[i], "_id") # Get(Elems(v)[j], "_id")
        /\ \A i \in 1..Len(Elems(v)) : WellKeyedValue(Elems(v)[i])
    ELSE IF IsList(v) THEN \A i \in 1..Len(Elems(v)) : ~IsContainer(Elems(v)[i])
    ELSE TRUE

WellKeyed(d) ==
    \A i \in 1..Len(Items(At(d, "entries"))) :
        LET r == Items(At(d, "entries"))[i][2] IN IsDict(r) /\ WellKeyedValue(r)

\* the edited fields the merge reads: a top-level string, or a field of an
\* entries record
EditsInScope == \A q \in edits : Len(q) = 1 \/ q[1] = <<"k", "entries">>

\* C5 (as amended): when the sequences in the records of d hold only scalars
\* or only mappings with pairwise distinct string _ids, no mapping of a record
\* holds two sequences of mappings, and the edits are made to top-level strings
\* or inside the entries records of the companion, merging the companion back
\* yields d with exactly the edited fields replaced.
C5_RoundTripKeyed ==
    (pc = "done" /\ WellKeyed(dst0) /\ EditsInScope) => dst = expected

\* C5 witness: two fields were edited, one of them in an element of a
\* sequence, and merged back into a document that holds a sequence.
C5_Witness ==
    /\ pc = "done" /\ WellKeyed(dst0) /\ EditsInScope
    /\ Cardinality(edits) = 2
    /\ \E q \in edits : \E n \in 1..Len(q) : q[n][1] = "i"
    /\ \E q \in edits : Len(q) = 1
    /\ dst # dst0

\* C5 (original): merging the edited companion back yields d with exactly the
\* edited fields replaced, whatever d and wherever the edits; with no edit d
\* is unchanged.
C5_RoundTrip == pc = "done" => dst = expected

====
